---- MODULE Spec2Model ----
(***************************************************************************)
(* A model of the GBAM reader (gbam_tools): the file header (meta.rs),     *)
(* the reader and its parsing template (reader/reader.rs) and the flagstat *)
(* query (query/flagstat.rs).                                              *)
(*                                                                         *)
(* Numbers wider than TLC's integers (u32, u64, usize) are sequences of    *)
(* 16-bit limbs, least significant limb first: <<l0, l1>> is a u32 of      *)
(* value l0 + 65536 * l1, and a u64/usize has four limbs.                  *)
(***************************************************************************)
EXTENDS Integers, Sequences, FiniteSets, TLC

VARIABLES
    \* ---- meta.rs: FileInfo <-> bytes
    info,        \* the FileInfo value handed to Into<Vec<u8>>
    bytes,       \* the Vec<u8> it produced
    buf,         \* the byte buffer handed to From<&[u8]>
    parsed,      \* the outcome of From<&[u8]> (a FileInfo, or a panic)
    hpc,         \* position: "new", "serialized", "parsed"
    \* ---- the file a reader is built on
    data,        \* the records of the file: data[n + 1][f] is field f of record n
                 \* (a file longer than data repeats it)
    \* ---- reader.rs: struct Reader
    columns,            \* columns[f]: TRUE when the Vec holds Some(column) for f
    parsing_template,
    original_template,
    amount,
    file_meta,
    \* ---- the callers of the reader
    rec,         \* the GbamRecord buffer handed to fill_record
    fetched,     \* the fields a block of which a column of the reader has fetched
    last_call,   \* the last call made on the reader and how it ended
    built_with,  \* the template the reader was constructed with
    \* ---- reader.rs: the prefix sums over a block list
    blocks,      \* the block list (the numitems of each block) of a field
    overflow_checks, \* the build's integer overflow checks: TRUE on, FALSE off
    treemap,     \* the outcome of generate_block_treemap
    record_count, \* the outcome of the record count fold of new_with_meta
    \* ---- flagstat.rs
    stats,       \* struct Stats: sixteen counters, each [QC-passed, QC-failed]
    prev_stats,  \* stats as they were before the last call of collect
    queue,       \* the records (Bundle values) still to be counted
    fed,         \* the records handed to collect so far
    collected,   \* the outcome of the last call of collect
    \* ---- flagstat.rs: collect_stats
    fpc,                \* the position in collect_stats
    current_record,
    available_records,
    asked,       \* per column, the record number ranges <<from, to>> (to excluded)
                 \* it was asked for, in the order of the requests
    printed,     \* the lines println!("{stats}") wrote
    \* ---- reader.rs: Reader::new
    file,        \* the bytes of the file that is opened
    opened       \* the outcome of Reader::new

hdrVars == <<info, bytes, buf, parsed, hpc>>
rdVars == <<data, columns, parsing_template, original_template, amount, file_meta,
            rec, fetched, last_call, built_with>>
tmVars == <<blocks, overflow_checks, treemap, record_count>>
csVars == <<stats, prev_stats, queue, fed, collected>>
fsVars == <<fpc, current_record, available_records, asked, printed>>
opVars == <<file, opened>>
vars == <<hdrVars, rdVars, tmVars, csVars, fsVars, opVars>>
notHdr == <<rdVars, tmVars, csVars, fsVars, opVars>>
notRd == <<hdrVars, tmVars, csVars, fsVars, opVars>>
notTm == <<hdrVars, rdVars, csVars, fsVars, opVars>>
notCs == <<hdrVars, rdVars, tmVars, fsVars, opVars>>

\* ------------------------------------------------------------------------
\* Limb arithmetic
\* ------------------------------------------------------------------------
Base == 256 * 256
Limb == 0 .. (Base - 1)

U32Zero == <<0, 0>>
U64Zero == <<0, 0, 0, 0>>

\* `x as usize` / `x as u64` of a u32: zero extension.
AsUsize(x) == <<x[1], x[2], 0, 0>>

\* A small natural number as a u32 / a usize.
NatU32(n) == <<n % Base, (n \div Base) % Base>>
NatUsize(n) == AsUsize(NatU32(n))

\* The two little-endian bytes of a limb, and the bytes of a limb sequence.
LimbBytes(l) == <<l % 256, l \div 256>>

RECURSIVE LeBytes(_)
LeBytes(x) == IF x = <<>> THEN <<>> ELSE LimbBytes(Head(x)) \o LeBytes(Tail(x))

\* read_uNN::<LittleEndian> of the first 2 * n bytes of b, as n limbs.
RECURSIVE ReadLe(_, _)
ReadLe(b, n) ==
    IF n = 0 THEN <<>>
    ELSE <<b[1] + 256 * b[2]>> \o ReadLe(SubSeq(b, 3, Len(b)), n - 1)

\* ------------------------------------------------------------------------
\* meta.rs: the file header
\* ------------------------------------------------------------------------
U64_SIZE == 8
U32_SIZE == 4

\* b"geeBAM10"
GBAM_MAGIC == <<103, 101, 101, 66, 65, 77, 49, 48>>

FILE_INFO_SIZE == U64_SIZE + U32_SIZE * 2 + U64_SIZE + U32_SIZE

\* FileInfo::new
FileInfoNew(gbam_version, seekpos, crc32) ==
    [gbam_version |-> gbam_version, seekpos |-> seekpos, crc32 |-> crc32]

\* A mutant of IntoBytes: the metadata offset written as a u32.
IntoBytesSeekposU32(fi) ==
    GBAM_MAGIC \o LeBytes(fi.gbam_version[1]) \o LeBytes(fi.gbam_version[2])
        \o LeBytes(SubSeq(fi.seekpos, 1, 2)) \o LeBytes(fi.crc32)

\* impl Into<Vec<u8>> for FileInfo
IntoBytes(fi) ==
    GBAM_MAGIC \o LeBytes(fi.gbam_version[1]) \o LeBytes(fi.gbam_version[2])
        \o LeBytes(fi.seekpos) \o LeBytes(fi.crc32)

Panic(msg) == [kind |-> "Panic", msg |-> msg]
Ok(v) == [kind |-> "Ok", value |-> v]
Err(msg) == [kind |-> "Err", msg |-> msg]

\* A mutant of FromBytes: the magic is not compared.
FromBytesNoMagic(b) ==
    IF Len(b) # FILE_INFO_SIZE
    THEN Panic("Not enough bytes to form file info struct.")
    ELSE Ok(FileInfoNew(
            <<ReadLe(SubSeq(b, U64_SIZE + 1, Len(b)), 2),
              ReadLe(SubSeq(b, U64_SIZE + U32_SIZE + 1, Len(b)), 2)>>,
            ReadLe(SubSeq(b, U64_SIZE + 2 * U32_SIZE + 1, Len(b)), 4),
            ReadLe(SubSeq(b, U64_SIZE + 2 * U32_SIZE + U64_SIZE + 1, Len(b)), 2)))

\* impl From<&[u8]> for FileInfo: the two assertions, then the four reads.
FromBytes(b) ==
    IF Len(b) # FILE_INFO_SIZE
    THEN Panic("Not enough bytes to form file info struct.")
    ELSE IF SubSeq(b, 1, U64_SIZE) # GBAM_MAGIC
    THEN Panic("assertion failed: bytes[..U64_SIZE] == GBAM_MAGIC")
    ELSE Ok(FileInfoNew(
            <<ReadLe(SubSeq(b, U64_SIZE + 1, Len(b)), 2),
              ReadLe(SubSeq(b, U64_SIZE + U32_SIZE + 1, Len(b)), 2)>>,
            ReadLe(SubSeq(b, U64_SIZE + 2 * U32_SIZE + 1, Len(b)), 4),
            ReadLe(SubSeq(b, U64_SIZE + 2 * U32_SIZE + U64_SIZE + 1, Len(b)), 2)))

\* ------------------------------------------------------------------------
\* SpecHeader: a FileInfo is serialised, and a buffer derived from the
\* result (cut short, padded, its magic damaged) is parsed back.
\* ------------------------------------------------------------------------
MaxPad == 5

U32Samples == { <<0, 0>>, <<513, 1027>>, <<Base - 1, Base - 1>> }
U64Samples == { AsUsize(NatU32(28)), <<513, 1027, 1541, 2055>>,
                <<Base - 1, Base - 1, Base - 1, Base - 1>> }
VersionSamples == { <<NatU32(1), NatU32(0)>>, <<<<Base - 1, Base - 1>>, <<513, 1027>>>> }

FileInfos ==
    { FileInfoNew(v, s, c) : v \in VersionSamples, s \in U64Samples, c \in U32Samples }

\* b with the byte at 1-based position i (0: none) changed.
Damage(b, i) ==
    [k \in 1 .. Len(b) |-> IF k = i THEN (b[k] + 1) % 256 ELSE b[k]]

\* b cut or zero-padded to n bytes.
Resize(b, n) == [k \in 1 .. n |-> IF k <= Len(b) THEN b[k] ELSE 0]

NoOutcome == [kind |-> "None", op |-> "none"]

\* The variables of the other components, at rest.
RdIdle ==
    /\ data = <<>>
    /\ columns = <<>>
    /\ parsing_template = {}
    /\ original_template = {}
    /\ amount = U64Zero
    /\ file_meta = <<>>
    /\ rec = <<>>
    /\ fetched = {}
    /\ last_call = NoOutcome
    /\ built_with = {}

TmIdle ==
    /\ blocks = <<>>
    /\ overflow_checks = FALSE
    /\ treemap = NoOutcome
    /\ record_count = NoOutcome

CsIdle ==
    /\ stats = <<>>
    /\ prev_stats = <<>>
    /\ queue = <<>>
    /\ fed = <<>>
    /\ collected = NoOutcome

FsIdle ==
    /\ fpc = "idle"
    /\ current_record = 0
    /\ available_records = 0
    /\ asked = <<>>
    /\ printed = <<>>

OpIdle ==
    /\ file = <<>>
    /\ opened = NoOutcome

HdrInit ==
    /\ OpIdle
    /\ RdIdle
    /\ TmIdle
    /\ CsIdle
    /\ FsIdle
    /\ info \in FileInfos
    /\ bytes = <<>>
    /\ buf = <<>>
    /\ parsed = NoOutcome
    /\ hpc = "new"

Serialize ==
    /\ hpc = "new"
    /\ bytes' = IntoBytes(info)
    /\ hpc' = "serialized"
    /\ UNCHANGED <<info, buf, parsed, notHdr>>

Parse ==
    /\ hpc = "serialized"
    /\ \E n \in 0 .. (Len(bytes) + MaxPad), i \in 0 .. U64_SIZE :
          /\ buf' = Resize(Damage(bytes, i), n)
          /\ parsed' = FromBytes(buf')
    /\ hpc' = "parsed"
    /\ UNCHANGED <<info, bytes, notHdr>>

HdrNext == Serialize \/ Parse

SpecHeader == HdrInit /\ [][HdrNext]_vars

MagicOk(b) == Len(b) >= 8 /\ SubSeq(b, 1, 8) = GBAM_MAGIC

\* The limbs of the little-endian number held at 0-based offsets lo .. hi of b.
LittleEndianAt(b, lo, hi) ==
    [k \in 1 .. ((hi - lo + 1) \div 2) |-> b[lo + 2 * k - 1] + 256 * b[lo + 2 * k]]

HeaderLayout(b, fi) ==
    /\ Len(b) >= 28
    /\ \A k \in 0 .. 7 : b[k + 1] = GBAM_MAGIC[k + 1]
    /\ LittleEndianAt(b, 8, 11) = fi.gbam_version[1]
    /\ LittleEndianAt(b, 12, 15) = fi.gbam_version[2]
    /\ LittleEndianAt(b, 16, 23) = fi.seekpos
    /\ LittleEndianAt(b, 24, 27) = fi.crc32

FieldOrder == <<"RefID", "Flags", "Mapq", "NextRefID", "ReadName", "ReadNameIndex">>
Fields == { FieldOrder[i] : i \in 1 .. Len(FieldOrder) }
FIELDS_NUM == Len(FieldOrder)

VariableFields == { "ReadName" }
IndexFields == { "ReadNameIndex" }
DataFields == Fields \ IndexFields

field_type(f) == IF f \in VariableFields THEN "VariableSized" ELSE "FixedSized"
var_size_field_to_index(f) == "ReadNameIndex"

\* ParsingTemplate::new, ::clear, ::set: a bit per field; activating a
\* variable-size field activates its index field.
TemplateNew == {}
TemplateClear(t) == {}
TemplateSet(t, f, val) ==
    IF val
    THEN t \cup {f} \cup (IF field_type(f) = "VariableSized"
                          THEN {var_size_field_to_index(f)} ELSE {})
    ELSE t \ {f}

RECURSIVE TemplateSetAll(_, _)
TemplateSetAll(t, fs) ==
    IF fs = <<>> THEN t ELSE TemplateSetAll(TemplateSet(t, Head(fs), TRUE), Tail(fs))

\* get_active_fields_iter / get_active_data_fields_iter, in enum order.
InOrder(S) == SelectSeq(FieldOrder, LAMBDA f : f \in S)
ActiveFields(t) ==
    t \cup { var_size_field_to_index(f) : f \in (t \cap VariableFields) }
ActiveDataFields(t) == ActiveFields(t) \cap DataFields
get_active_fields_iter(t) == InOrder(ActiveFields(t))
get_active_data_fields_iter(t) == InOrder(ActiveDataFields(t))

\* ------------------------------------------------------------------------
\* meta.rs: FileMeta.  file_meta[f] is the block list of field f, each block
\* its numitems (a u32).
\* ------------------------------------------------------------------------
view_blocks(meta, f) == meta[f]

\* u32 + u32: the wrapped sum and whether it overflowed.
AddU32(a, b) ==
    LET s0 == a[1] + b[1]
        s1 == a[2] + b[2] + (s0 \div Base)
    IN  [val |-> <<s0 % Base, s1 % Base>>, overflow |-> s1 >= Base]

\* usize + u32 without wrap-around (the mathematical sum, within 64 bits).
RECURSIVE AddLimbs(_, _, _)
AddLimbs(a, b, carry) ==
    IF a = <<>> THEN <<>>
    ELSE LET s == a[1] + (IF b = <<>> THEN 0 ELSE b[1]) + carry
         IN  <<s % Base>> \o AddLimbs(Tail(a), IF b = <<>> THEN <<>> ELSE Tail(b),
                                      s \div Base)
AddWide(a, b) == AddLimbs(a, b, 0)

\* a <= b and a < b on numbers of the same limb count.
RECURSIVE LeqLimbs(_, _)
LeqLimbs(a, b) ==
    IF a = <<>> THEN TRUE
    ELSE LET n == Len(a)
         IN  IF a[n] # b[n] THEN a[n] < b[n]
             ELSE LeqLimbs(SubSeq(a, 1, n - 1), SubSeq(b, 1, n - 1))
LessLimbs(a, b) == a # b /\ LeqLimbs(a, b)

\* The value of a number that fits TLC's integers.
ToNat(x) == x[1] + Base * x[2]

\* ------------------------------------------------------------------------
\* CRC32 (IEEE 802.3, reflected, polynomial EDB88320), bit by bit on limbs:
\* writer::calc_crc_for_meta_bytes
\* ------------------------------------------------------------------------
RECURSIVE XorBits(_, _, _)
XorBits(a, b, n) ==
    IF n = 0 THEN 0
    ELSE ((a + b) % 2) + 2 * XorBits(a \div 2, b \div 2, n - 1)

XorU32(x, y) == <<XorBits(x[1], y[1], 16), XorBits(x[2], y[2], 16)>>
Shr1(x) == <<(x[1] \div 2) + (x[2] % 2) * (Base \div 2), x[2] \div 2>>
CrcPoly == <<33568, 60856>>
AllOnes == <<Base - 1, Base - 1>>

RECURSIVE CrcBits(_, _)
CrcBits(crc, n) ==
    IF n = 0 THEN crc
    ELSE CrcBits(IF crc[1] % 2 = 1 THEN XorU32(Shr1(crc), CrcPoly) ELSE Shr1(crc),
                 n - 1)

\* One byte of input folded into the register.
CrcByte(crc, x) ==
    CrcBits(<<XorBits(crc[1] % 256, x, 8) + 256 * (crc[1] \div 256), crc[2]>>, 8)

\* The bytes b[lo] .. b[hi] folded into the register. The range is halved at
\* each step and the register of the first half is a value before the second
\* half starts, which keeps the evaluation shallow.
RECURSIVE CrcBytes(_, _, _, _)
CrcBytes(crc, b, lo, hi) ==
    IF lo > hi THEN crc
    ELSE IF lo = hi THEN CrcByte(crc, b[lo])
    ELSE LET mid == (lo + hi) \div 2
         IN  CHOOSE r \in { CrcBytes(c, b, mid + 1, hi) :
                               c \in { CrcBytes(crc, b, lo, mid) } } : TRUE

calc_crc_for_meta_bytes(b) == XorU32(CrcBytes(AllOnes, b, 1, Len(b)), AllOnes)

\* ------------------------------------------------------------------------
\* reader.rs
\* ------------------------------------------------------------------------
OverflowPanic == Panic("attempt to add with overflow")

\* BTreeMap::insert on a map held as a set of <<key, value>> pairs.
MapInsert(m, k, v) == { e \in m : e[1] # k } \cup { <<k, v>> }

\* generate_block_treemap: the scan over the enumerated block list, acc a u32.
\* checks: the build's overflow checks (on: `+=` panics; off: it wraps).
RECURSIVE ScanBlocks(_, _, _, _, _)
ScanBlocks(bl, i, acc, map, checks) ==
    IF i > Len(bl) THEN Ok(map)
    ELSE LET sum == AddU32(acc, bl[i])
         IN  IF sum.overflow /\ checks THEN OverflowPanic
             ELSE ScanBlocks(bl, i + 1, sum.val,
                             MapInsert(map, AsUsize(acc), i - 1), checks)

generate_block_treemap(meta, field, checks) ==
    ScanBlocks(view_blocks(meta, field), 1, U32Zero, {}, checks)

\* Reader::new_with_meta, lines 44-47: the fold over RefID's bl, acc a u32.
RECURSIVE FoldNumitems(_, _, _, _)
FoldNumitems(bl, i, acc, checks) ==
    IF i > Len(bl) THEN Ok(AsUsize(acc))
    ELSE LET sum == AddU32(acc, bl[i])
         IN  IF sum.overflow /\ checks THEN OverflowPanic
             ELSE FoldNumitems(bl, i + 1, sum.val, checks)

\* A mutant of init_columns: a column for every field of the catalog.
init_columns_all(parse_template, meta) == [f \in Fields |-> TRUE]

\* init_columns: None everywhere, then Some(init_col(field)) for the active
\* fields of the template.
init_columns(parse_template, meta) ==
    [f \in Fields |-> f \in ActiveFields(parse_template)]

\* init_col reads the field's (and a variable field's index field's) entry of
\* the metadata map; a field the map lacks panics (HashMap index).
InitColNeeds(f) ==
    IF field_type(f) = "VariableSized" THEN {f, var_size_field_to_index(f)} ELSE {f}

new_with_meta(template, meta, checks) ==
    IF "RefID" \notin DOMAIN meta THEN Panic("key not found")
    ELSE LET n == FoldNumitems(view_blocks(meta, "RefID"), 1, U32Zero, checks)
         IN  IF n.kind = "Panic" THEN n
             ELSE IF \E f \in ActiveFields(template) :
                        ~(InitColNeeds(f) \subseteq DOMAIN meta)
             THEN Panic("key not found")
             ELSE Ok([columns |-> init_columns(template, meta),
                      original_template |-> template,
                      parsing_template |-> template,
                      file_meta |-> meta,
                      amount |-> n.value])

None == <<>>
Some(v) == <<v>>
GbamRecordDefault == [f \in DataFields |-> None]

\* Column::fill_record_field: the column fetches the block record n lies in
\* (a variable column its index column's block too) and sets the attribute.
DataAt(n, f) == data[(n % Len(data)) + 1][f]
fill_record_field(f, n, r) == [r EXCEPT ![f] = Some(DataAt(n, f))]
BlocksTouched(f) == InitColNeeds(f)

\* The loop of Reader::fill_record over the active data fields: a field
\* whose column is None panics at the unwrap, the earlier fields being set.
RECURSIVE FillLoop(_, _, _, _)
FillLoop(fs, n, r, got) ==
    IF fs = <<>> THEN [rec |-> r, fetched |-> got, panicked |-> FALSE]
    ELSE IF ~columns[Head(fs)] THEN [rec |-> r, fetched |-> got, panicked |-> TRUE]
    ELSE FillLoop(Tail(fs), n, fill_record_field(Head(fs), n, r),
                  got \cup BlocksTouched(Head(fs)))

\* A mutant of fetch_only: the original template is narrowed as well.
fetch_only_forgets(template, fields) ==
    [parsing_template |-> TemplateSetAll(TemplateClear(template), fields),
     original_template |-> TemplateSetAll(TemplateClear(template), fields)]

\* Reader::fetch_only
fetch_only(template, fields) ==
    [parsing_template |-> TemplateSetAll(TemplateClear(template), fields),
     original_template |-> original_template]

\* Reader::restore_template
restore_template == original_template

\* ------------------------------------------------------------------------
\* SpecReader: a reader built on a file of N records, then any sequence of
\* fill_record, get_column, fetch_only and restore_template calls.  Record n
\* of the file holds the value n in every field.
\* ------------------------------------------------------------------------
MaxRecords == 2
MaxFetch == 2

TemplateOf(S) == TemplateSetAll(TemplateNew, InOrder(S))
Templates ==
    { TemplateOf(S) : S \in { {}, {"RefID"}, {"RefID", "Mapq"}, {"ReadName"},
                              {"RefID", "Flags", "Mapq", "NextRefID"} } }
FieldLists == { InOrder(S) : S \in { X \in SUBSET Fields : Cardinality(X) <= MaxFetch } }

\* The block list of every field of a file of n records: one block, or one
\* block per record.
BlockList(n, layout) ==
    IF n = 0 THEN <<>>
    ELSE IF layout = "single" THEN <<NatU32(n)>>
    ELSE [i \in 1 .. n |-> NatU32(1)]

Built(r) ==
    /\ columns = r.columns
    /\ parsing_template = r.parsing_template
    /\ original_template = r.original_template
    /\ amount = r.amount
    /\ file_meta = r.file_meta

HdrIdle ==
    /\ info = NoOutcome
    /\ bytes = <<>>
    /\ buf = <<>>
    /\ parsed = NoOutcome
    /\ hpc = "idle"

RdInit ==
    /\ HdrIdle
    /\ OpIdle
    /\ FsIdle
    /\ TmIdle
    /\ CsIdle
    /\ \E n \in 0 .. MaxRecords, t \in Templates :
          /\ data = [i \in 1 .. n |-> [f \in Fields |-> i - 1]]
          /\ built_with = t
          /\ Built(new_with_meta(t, [f \in Fields |-> BlockList(n, "each")], FALSE).value)
    /\ rec = GbamRecordDefault
    /\ fetched = {}
    /\ last_call = NoOutcome

Usable == last_call.kind # "Panic"

\* Reader::fill_record(rec_num, rec), the buffer fresh or the one used before.
FillRecord ==
    /\ Usable
    /\ \E n \in 0 .. ToNat(amount), fresh \in BOOLEAN :
          IF ~LessLimbs(NatUsize(n), amount)
          THEN /\ last_call' = [op |-> "fill_record", kind |-> "Panic", n |-> n]
               /\ rec' = IF fresh THEN GbamRecordDefault ELSE rec
               /\ UNCHANGED fetched
          ELSE LET r == FillLoop(get_active_data_fields_iter(parsing_template), n,
                                 IF fresh THEN GbamRecordDefault ELSE rec, fetched)
               IN  /\ rec' = r.rec
                   /\ fetched' = r.fetched
                   /\ last_call' = [op |-> "fill_record",
                                    kind |-> IF r.panicked THEN "Panic" ELSE "Ok",
                                    n |-> n]
    /\ UNCHANGED <<notRd, data, columns, parsing_template, original_template,
                   amount, file_meta, built_with>>

\* Reader::get_column(field)
GetColumn ==
    /\ Usable
    /\ \E f \in Fields :
          last_call' = [op |-> "get_column",
                        kind |-> IF columns[f] THEN "Ok" ELSE "Panic",
                        active |-> f \in ActiveFields(parsing_template)]
    /\ UNCHANGED <<notRd, data, columns, parsing_template, original_template,
                   amount, file_meta, rec, fetched, built_with>>

FetchOnly ==
    /\ Usable
    /\ \E fs \in FieldLists :
          LET r == fetch_only(parsing_template, fs)
          IN  /\ parsing_template' = r.parsing_template
              /\ original_template' = r.original_template
    /\ last_call' = [op |-> "fetch_only", kind |-> "Ok"]
    /\ UNCHANGED <<notRd, data, columns, amount, file_meta, rec, fetched, built_with>>

RestoreTemplate ==
    /\ Usable
    /\ parsing_template' = restore_template
    /\ last_call' = [op |-> "restore_template", kind |-> "Ok",
                     before |-> parsing_template]
    /\ UNCHANGED <<notRd, data, columns, original_template, amount, file_meta,
                   rec, fetched, built_with>>

RdNext == FillRecord \/ GetColumn \/ FetchOnly \/ RestoreTemplate

SpecReader == RdInit /\ [][RdNext]_vars

\* C5: after fetch_only calls (with fill_record calls between them) and then
\* restore_template, the active template is exactly the template the reader
\* was built with, and the remembered original template never changes.
C5_RestoreTemplate ==
    /\ original_template = built_with
    /\ last_call.op = "restore_template" => parsing_template = built_with

C5_Witness ==
    /\ last_call.op = "restore_template"
    /\ last_call.before # built_with
    /\ rec # GbamRecordDefault
    /\ parsing_template = built_with
    /\ built_with # {}

\* C6 as stated: after a fill_record(n, rec) that returns, the attributes of
\* rec that carry a value are exactly the active data fields, each set from
\* record n, whether the buffer was fresh or reused.
C6_FillExactly ==
    (last_call.op = "fill_record" /\ last_call.kind = "Ok") =>
        \A f \in DataFields :
            rec[f] = IF f \in ActiveDataFields(parsing_template)
                     THEN Some(data[last_call.n + 1][f]) ELSE None

\* C8 as stated: the active set stays within the template the reader was
\* built with, so fill_record(n) for n < N does not fail, and a request for a
\* field outside the active template does not take the reader down.
C8_NarrowOnly ==
    /\ ActiveFields(parsing_template) \subseteq ActiveFields(built_with)
    /\ (last_call.op = "fill_record" /\ last_call.n < Len(data)) => last_call.kind = "Ok"
    /\ (last_call.op = "get_column" /\ ~last_call.active) => last_call.kind # "Panic"

\* C9: the reader holds a column for exactly the active fields of the
\* template it was built with, whatever calls are made on it, and no block of
\* any other field is ever fetched.
C9_ColumnsOfTemplate ==
    hpc = "idle" =>
        /\ \A f \in Fields : columns[f] <=> f \in ActiveFields(built_with)
        /\ fetched \subseteq ActiveFields(built_with)

C9_Witness ==
    /\ hpc = "idle"
    /\ built_with = {"RefID"}
    /\ last_call.op = "fill_record"
    /\ last_call.kind = "Ok"
    /\ fetched = {"RefID"}
    /\ \E f \in VariableFields : ~columns[f]

\* ------------------------------------------------------------------------
\* SpecTreemap: the two prefix sums of reader.rs on block lists whose item
\* counts range over the whole of u32, under either build profile.
\* ------------------------------------------------------------------------
MaxBlocks == 3

\* 0, 1, 2, 2^31 and 2^32 - 1
NumitemsSamples == { <<0, 0>>, <<1, 0>>, <<2, 0>>, <<0, Base \div 2>>, <<Base - 1, Base - 1>> }

RECURSIVE SeqsUpTo(_, _)
SeqsUpTo(S, n) ==
    IF n = 0 THEN { <<>> }
    ELSE LET shorter == SeqsUpTo(S, n - 1)
         IN  shorter \cup { Append(q, x) : q \in { r \in shorter : Len(r) = n - 1 }, x \in S }

TmInit ==
    /\ HdrIdle
    /\ OpIdle
    /\ FsIdle
    /\ RdIdle
    /\ CsIdle
    /\ blocks \in SeqsUpTo(NumitemsSamples, MaxBlocks)
    /\ overflow_checks \in BOOLEAN
    /\ treemap = NoOutcome
    /\ record_count = NoOutcome

\* Inner::new for a column of the field: generate_block_treemap(meta, field)
GenerateTreemap ==
    /\ hpc = "idle"
    /\ treemap = NoOutcome
    /\ treemap' = generate_block_treemap([f \in {"RefID"} |-> blocks], "RefID",
                                         overflow_checks)
    /\ UNCHANGED <<notTm, blocks, overflow_checks, record_count>>

\* Reader::new_with_meta, lines 44-47
CountRecords ==
    /\ hpc = "idle"
    /\ record_count = NoOutcome
    /\ record_count' = FoldNumitems(view_blocks([f \in {"RefID"} |-> blocks], "RefID"), 1,
                             U32Zero, overflow_checks)
    /\ UNCHANGED <<notTm, blocks, overflow_checks, treemap>>

TmNext == GenerateTreemap \/ CountRecords

SpecTreemap == TmInit /\ [][TmNext]_vars

\* The sum of the numitems of the first k blocks, without wrap-around.
RECURSIVE ExactSum(_, _)
ExactSum(bl, k) ==
    IF k = 0 THEN U64Zero ELSE AddWide(ExactSum(bl, k - 1), bl[k])

\* x - 1 for x > 0.
RECURSIVE Pred(_)
Pred(x) == IF x[1] > 0 THEN <<x[1] - 1>> \o Tail(x) ELSE <<Base - 1>> \o Pred(Tail(x))

\* The entry of the map with the greatest key <= n.
Floor(map, n) ==
    { e \in map : /\ LeqLimbs(e[1], n)
                  /\ \A d \in map : LeqLimbs(d[1], n) => LeqLimbs(d[1], e[1]) }

NoEmptyBlock(bl) == \A i \in 1 .. Len(bl) : bl[i] # U32Zero

TreemapAsClaimed(bl, out) ==
    /\ out.kind = "Ok"
    /\ Cardinality(out.value) = Len(bl)
    /\ \A i \in 1 .. Len(bl) :
          /\ <<ExactSum(bl, i - 1), i - 1>> \in out.value
          \* the first and the last record of block i - 1 resolve to it
          /\ Floor(out.value, ExactSum(bl, i - 1)) = { <<ExactSum(bl, i - 1), i - 1>> }
          /\ Floor(out.value, Pred(ExactSum(bl, i))) = { <<ExactSum(bl, i - 1), i - 1>> }
    /\ \A d, e \in out.value : d[2] < e[2] => LessLimbs(d[1], e[1])

\* C10 as stated: for a block list with every numitems >= 1 the map has one
\* entry per block, block i keyed by the sum of the numitems of the blocks
\* before it, the keys strictly increasing, and the greatest key <= n names
\* the block that holds record n.
C10_TreemapPrefixSums ==
    (treemap # NoOutcome /\ NoEmptyBlock(blocks)) => TreemapAsClaimed(blocks, treemap)

\* What does hold: C10's statement on the block lists whose item counts sum
\* to less than 2^32.
TreemapWithinU32 ==
    (treemap # NoOutcome /\ NoEmptyBlock(blocks)
        /\ LessLimbs(ExactSum(blocks, Len(blocks)), <<0, 0, 1, 0>>))
    => TreemapAsClaimed(blocks, treemap)

\* C11 as stated: the record count of the reader is the exact sum of the
\* numitems of the RefID block list for every block list, those summing to
\* more than 2^32 - 1 included (no wrap-around, no overflow failure), and 0
\* for the empty list.
C11_ExactRecordCount ==
    record_count # NoOutcome =>
        /\ record_count = Ok(ExactSum(blocks, Len(blocks)))
        /\ blocks = <<>> => record_count = Ok(U64Zero)

\* What does hold: C11's statement on the block lists whose item counts sum
\* to less than 2^32.
RecordCountWithinU32 ==
    (record_count # NoOutcome /\ LessLimbs(ExactSum(blocks, Len(blocks)), <<0, 0, 1, 0>>))
    => record_count = Ok(ExactSum(blocks, Len(blocks)))

\* ------------------------------------------------------------------------
\* flagstat.rs: BamFlags, Stats, collect
\* ------------------------------------------------------------------------
BAM_FPAIRED == 1
BAM_FPROPER_PAIR == 2
BAM_FUNMAP == 4
BAM_FMUNMAP == 8
BAM_FREVERSE == 16
BAM_FMREVERSE == 32
BAM_FREAD1 == 64
BAM_FREAD2 == 128
BAM_FSECONDARY == 256
BAM_FQCFAIL == 512
BAM_FDUP == 1024
BAM_FSUPPLEMENTARY == 2048

\* The union of the twelve flags, as a bit mask.
BamFlagsAll ==
    BAM_FPAIRED + BAM_FPROPER_PAIR + BAM_FUNMAP + BAM_FMUNMAP + BAM_FREVERSE
        + BAM_FMREVERSE + BAM_FREAD1 + BAM_FREAD2 + BAM_FSECONDARY + BAM_FQCFAIL
        + BAM_FDUP + BAM_FSUPPLEMENTARY

\* BamFlags::contains(flag) for a single-bit flag.
contains(bits, flag) == (bits \div flag) % 2 = 1

\* BamFlags::from_bits: None when a bit outside the twelve flags is set.
from_bits(bits) == IF bits > BamFlagsAll THEN None ELSE Some(bits)

Counters ==
    { "n_reads", "n_mapped", "n_pair_all", "n_pair_map", "n_pair_good", "n_sgltn",
      "n_read1", "n_read2", "n_dup", "n_diffchr", "n_diffhigh", "n_secondary",
      "n_supp", "n_primary", "n_pmapped", "n_pdup" }

\* Stats::default()
StatsDefault == [c \in Counters |-> <<0, 0>>]

\* stats.<counter>[w] += 1 when cond holds (w is 0 or 1).
Inc(st, cond, counter, w) ==
    IF cond THEN [st EXCEPT ![counter][w + 1] = @ + 1] ELSE st

\* A mutant of collect_primary: a properly paired read is counted even when
\* the read itself is unmapped.
collect_primary_proper_unmapped(st, f, r, w) ==
    LET s1 == Inc(st, TRUE, "n_primary", w)
        paired == contains(f, BAM_FPAIRED)
        s2 == Inc(s1, paired, "n_pair_all", w)
        s3 == Inc(s2, paired /\ contains(f, BAM_FPROPER_PAIR), "n_pair_good", w)
        s4 == Inc(s3, paired /\ contains(f, BAM_FREAD1), "n_read1", w)
        s5 == Inc(s4, paired /\ contains(f, BAM_FREAD2), "n_read2", w)
        s6 == Inc(s5, paired /\ contains(f, BAM_FMUNMAP) /\ ~contains(f, BAM_FUNMAP),
                  "n_sgltn", w)
        bothmapped == paired /\ ~contains(f, BAM_FUNMAP) /\ ~contains(f, BAM_FMUNMAP)
        s7 == Inc(s6, bothmapped, "n_pair_map", w)
        s8 == Inc(s7, bothmapped /\ r.next_ref_id # r.refid, "n_diffchr", w)
        s9 == Inc(s8, bothmapped /\ r.next_ref_id # r.refid /\ r.mapq >= 5,
                  "n_diffhigh", w)
        s10 == Inc(s9, ~contains(f, BAM_FUNMAP), "n_pmapped", w)
    IN  Inc(s10, contains(f, BAM_FDUP), "n_pdup", w)

\* collect, lines 111-142: the branch of a record that is neither secondary
\* nor supplementary.
collect_primary(st, f, r, w) ==
    LET s1 == Inc(st, TRUE, "n_primary", w)
        paired == contains(f, BAM_FPAIRED)
        s2 == Inc(s1, paired, "n_pair_all", w)
        s3 == Inc(s2, paired /\ contains(f, BAM_FPROPER_PAIR) /\ ~contains(f, BAM_FUNMAP),
                  "n_pair_good", w)
        s4 == Inc(s3, paired /\ contains(f, BAM_FREAD1), "n_read1", w)
        s5 == Inc(s4, paired /\ contains(f, BAM_FREAD2), "n_read2", w)
        s6 == Inc(s5, paired /\ contains(f, BAM_FMUNMAP) /\ ~contains(f, BAM_FUNMAP),
                  "n_sgltn", w)
        bothmapped == paired /\ ~contains(f, BAM_FUNMAP) /\ ~contains(f, BAM_FMUNMAP)
        s7 == Inc(s6, bothmapped, "n_pair_map", w)
        s8 == Inc(s7, bothmapped /\ r.next_ref_id # r.refid, "n_diffchr", w)
        s9 == Inc(s8, bothmapped /\ r.next_ref_id # r.refid /\ r.mapq >= 5,
                  "n_diffhigh", w)
        s10 == Inc(s9, ~contains(f, BAM_FUNMAP), "n_pmapped", w)
    IN  Inc(s10, contains(f, BAM_FDUP), "n_pdup", w)

\* collect(rec, stats): the new stats, or the panic of from_bits(..).unwrap().
collect(r, st) ==
    IF from_bits(r.flag) = None
    THEN Panic("called Option::unwrap() on a None value")
    ELSE LET f == r.flag
             w == IF contains(f, BAM_FQCFAIL) THEN 1 ELSE 0
             s1 == Inc(st, TRUE, "n_reads", w)
             s2 == IF contains(f, BAM_FSECONDARY) THEN Inc(s1, TRUE, "n_secondary", w)
                   ELSE IF contains(f, BAM_FSUPPLEMENTARY) THEN Inc(s1, TRUE, "n_supp", w)
                   ELSE collect_primary(s1, f, r, w)
             s3 == Inc(s2, ~contains(f, BAM_FUNMAP), "n_mapped", w)
         IN  Ok(Inc(s3, contains(f, BAM_FDUP), "n_dup", w))

\* struct Bundle
Bundle(refid, next_ref_id, flag, mapq) ==
    [refid |-> refid, next_ref_id |-> next_ref_id, flag |-> flag, mapq |-> mapq]

\* ------------------------------------------------------------------------
\* SpecCollect: collect applied to one record of any flag value, reference
\* ids and mapping quality, and to the six records of the flagstat example.
\* ------------------------------------------------------------------------
MaxRefID == 0

RefIDs == -1 .. MaxRefID
MapqSamples == { 0, 4, 5, 255 }
\* Every combination of the twelve flags, and three values with other bits.
FlagSamples == (0 .. BamFlagsAll) \cup { BamFlagsAll + 1, 32769, 65535 }

Bundles ==
    { Bundle(a, b, f, q) : a \in RefIDs, b \in RefIDs, f \in FlagSamples, q \in MapqSamples }

\* Flags 0x1, 0x1|0x40, 0x1|0x80|0x200, 0x4, 0x100, 0x400.
ExampleRecords ==
    << Bundle(0, 0, 1, 0), Bundle(0, 0, 65, 0), Bundle(0, 0, 641, 0),
       Bundle(0, 0, 4, 0), Bundle(0, 0, 256, 0), Bundle(0, 0, 1024, 0) >>

CsInit ==
    /\ HdrIdle
    /\ OpIdle
    /\ FsIdle
    /\ RdIdle
    /\ TmIdle
    /\ stats = StatsDefault
    /\ prev_stats = StatsDefault
    /\ queue \in { <<b>> : b \in Bundles } \cup { ExampleRecords }
    /\ fed = <<>>
    /\ collected = NoOutcome

Collect ==
    /\ hpc = "idle"
    /\ queue # <<>>
    /\ collected.kind # "Panic"
    /\ collected' = collect(Head(queue), stats)
    /\ stats' = IF collected'.kind = "Ok" THEN collected'.value ELSE stats
    /\ prev_stats' = stats
    /\ queue' = Tail(queue)
    /\ fed' = Append(fed, Head(queue))
    /\ UNCHANGED notCs

CsNext == Collect

SpecCollect == CsInit /\ [][CsNext]_vars

\* The flagstat rule of each counter, as a condition on the record.
Counts(counter, r) ==
    LET f == r.flag
        has(flag) == (f \div flag) % 2 = 1
        primary == ~has(256) /\ ~has(2048)
        pair == primary /\ has(1)
        pairmap == pair /\ ~has(4) /\ ~has(8)
    IN  CASE counter = "n_reads" -> TRUE
          [] counter = "n_secondary" -> has(256)
          [] counter = "n_supp" -> ~has(256) /\ has(2048)
          [] counter = "n_primary" -> primary
          [] counter = "n_pair_all" -> pair
          [] counter = "n_pair_good" -> pair /\ has(2) /\ ~has(4)
          [] counter = "n_read1" -> pair /\ has(64)
          [] counter = "n_read2" -> pair /\ has(128)
          [] counter = "n_sgltn" -> pair /\ has(8) /\ ~has(4)
          [] counter = "n_pair_map" -> pairmap
          [] counter = "n_diffchr" -> pairmap /\ r.refid # r.next_ref_id
          [] counter = "n_diffhigh" -> pairmap /\ r.refid # r.next_ref_id /\ r.mapq >= 5
          [] counter = "n_pmapped" -> primary /\ ~has(4)
          [] counter = "n_pdup" -> primary /\ has(1024)
          [] counter = "n_mapped" -> ~has(4)
          [] counter = "n_dup" -> has(1024)

PairCounters ==
    { "n_pair_all", "n_pair_good", "n_read1", "n_read2", "n_sgltn", "n_pair_map",
      "n_diffchr", "n_diffhigh", "n_pmapped", "n_pdup" }

\* C7: for every flag value built from the twelve flags and every RefID,
\* NextRefID and MAPQ, collect adds one to slot w (1 iff FQCFAIL) of exactly
\* the counters whose flagstat rule the record meets and changes nothing else:
\* the pair counters, n_pmapped and n_pdup only for records neither secondary
\* nor supplementary, n_diffhigh only with n_diffchr and MAPQ >= 5, n_mapped
\* and n_dup whatever the branch.  The six-record example gives n_reads =
\* [5,1], n_secondary = [1,0], n_dup = [1,0], n_read1 = [1,0], n_read2 =
\* [0,1], n_pair_all = [2,1].
C7_CollectRules ==
    /\ (fed # <<>> /\ fed[Len(fed)].flag <= 4095) =>
          LET r == fed[Len(fed)]
              w == IF (r.flag \div 512) % 2 = 1 THEN 1 ELSE 0
          IN  /\ collected.kind = "Ok"
              /\ \A c \in Counters, slot \in {0, 1} :
                    stats[c][slot + 1] - prev_stats[c][slot + 1]
                        = IF slot = w /\ Counts(c, r) THEN 1 ELSE 0
              /\ \A c \in PairCounters :
                    stats[c] # prev_stats[c] => stats["n_primary"] # prev_stats["n_primary"]
              /\ stats["n_diffhigh"] # prev_stats["n_diffhigh"] =>
                    (stats["n_diffchr"] # prev_stats["n_diffchr"] /\ r.mapq >= 5)
    /\ fed = ExampleRecords =>
          /\ stats["n_reads"] = <<5, 1>>
          /\ stats["n_secondary"] = <<1, 0>>
          /\ stats["n_dup"] = <<1, 0>>
          /\ stats["n_read1"] = <<1, 0>>
          /\ stats["n_read2"] = <<0, 1>>
          /\ stats["n_pair_all"] = <<2, 1>>

C7_Witness ==
    /\ fed = ExampleRecords
    /\ queue = <<>>
    /\ collected.kind = "Ok"
    /\ stats["n_reads"] = <<5, 1>>

\* C12 as stated: whatever the 16-bit flag value of a record, bits above the
\* twelve flags included, collect completes, adds exactly one to n_reads[w]
\* and to exactly one of n_secondary[w], n_supp[w], n_primary[w] (secondary
\* before supplementary), so that after any sequence of records
\* n_secondary[w] + n_supp[w] + n_primary[w] = n_reads[w] for both w.
C12_EveryFlagCounted ==
    fed # <<>> =>
        LET r == fed[Len(fed)]
            w == IF (r.flag \div 512) % 2 = 1 THEN 1 ELSE 0
            added(c) == stats[c][w + 1] - prev_stats[c][w + 1]
        IN  /\ collected.kind = "Ok"
            /\ added("n_reads") = 1
            /\ added("n_secondary") + added("n_supp") + added("n_primary") = 1
            /\ (r.flag \div 256) % 2 = 1 => added("n_secondary") = 1
            /\ \A slot \in {1, 2} :
                  stats["n_secondary"][slot] + stats["n_supp"][slot]
                      + stats["n_primary"][slot] = stats["n_reads"][slot]
            /\ stats["n_reads"][1] + stats["n_reads"][2] = Len(fed)

\* What does hold: C12's statement on the flag values built from the twelve
\* flags.
EveryDefinedFlagCounted ==
    (fed # <<>> /\ \A i \in 1 .. Len(fed) : fed[i].flag <= BamFlagsAll) =>
        /\ collected.kind = "Ok"
        /\ \A slot \in {1, 2} :
              stats["n_secondary"][slot] + stats["n_supp"][slot]
                  + stats["n_primary"][slot] = stats["n_reads"][slot]
        /\ stats["n_reads"][1] + stats["n_reads"][2] = Len(fed)

\* ------------------------------------------------------------------------
\* flagstat.rs: percent, Display for Stats, collect_stats
\* ------------------------------------------------------------------------
BUF_SIZE == 1000000

\* percent(n, total): "N/A" for a zero total, else the ratio that is printed
\* with two decimals (the digits are not modelled).
percent(n, total) == IF total # 0 THEN [n |-> n, of |-> total] ELSE [na |-> TRUE]

Line(st, counter, label) ==
    [a |-> st[counter][1], b |-> st[counter][2], label |-> label]
LinePct(st, counter, label, of) ==
    [a |-> st[counter][1], b |-> st[counter][2], label |-> label,
     p |-> percent(st[counter][1], st[of][1]), q |-> percent(st[counter][2], st[of][2])]

\* impl fmt::Display for Stats
Display(st) ==
    << Line(st, "n_reads", "in total (QC-passed reads + QC-failed reads)"),
       Line(st, "n_primary", "primary"),
       Line(st, "n_secondary", "secondary"),
       Line(st, "n_supp", "supplementary"),
       Line(st, "n_dup", "duplicates"),
       Line(st, "n_pdup", "primary duplicates"),
       LinePct(st, "n_mapped", "mapped", "n_reads"),
       LinePct(st, "n_pmapped", "primary mapped", "n_primary"),
       Line(st, "n_pair_all", "paired in sequencing"),
       Line(st, "n_read1", "read1"),
       Line(st, "n_read2", "read2"),
       LinePct(st, "n_pair_good", "properly paired", "n_pair_all"),
       Line(st, "n_pair_map", "with itself and mate mapped"),
       LinePct(st, "n_sgltn", "singletons", "n_pair_all"),
       Line(st, "n_diffchr", "with mate mapped to a different chr"),
       Line(st, "n_diffhigh", "with mate mapped to a different chr (mapQ>=5)") >>

\* A mutant of std::cmp::min: the batch is all that remains, whatever BUF_SIZE.
MinUncapped(a, b) == b

Min(a, b) == IF a <= b THEN a ELSE b

\* ------------------------------------------------------------------------
\* SpecFlagstat: collect_stats on a reader over a file of N records.
\* ------------------------------------------------------------------------
MaxBatches == 2

RecordCounts ==
    (0 .. MaxRecords) \cup { Len(ExampleRecords) }
        \cup { k * BUF_SIZE + d : k \in 1 .. MaxBatches, d \in -1 .. 1 }

\* A record of the file from the four values flagstat reads.
FileRecord(b) ==
    [f \in Fields |-> CASE f = "RefID" -> b.refid
                        [] f = "NextRefID" -> b.next_ref_id
                        [] f = "Flags" -> b.flag
                        [] f = "Mapq" -> b.mapq
                        [] OTHER -> 0]

FilePatterns ==
    { [i \in 1 .. Len(ExampleRecords) |-> FileRecord(ExampleRecords[i])],
      << FileRecord(Bundle(0, 1, 3, 60)), FileRecord(Bundle(0, 0, 1539, 0)) >> }

FsInit ==
    /\ HdrIdle
    /\ OpIdle
    /\ TmIdle
    /\ stats = StatsDefault
    /\ prev_stats = <<>>
    /\ queue = <<>>
    /\ fed = <<>>
    /\ collected = NoOutcome
    /\ \E n \in RecordCounts, t \in Templates :
          /\ built_with = t
          /\ Built(new_with_meta(t, [f \in Fields |-> BlockList(n, "single")], FALSE).value)
    /\ data \in FilePatterns
    /\ rec = GbamRecordDefault
    /\ fetched = {}
    /\ last_call = NoOutcome
    /\ fpc = "loop"
    /\ current_record = 0
    /\ available_records = 0
    /\ asked = [f \in {"RefID", "NextRefID", "Flags", "Mapq"} |-> <<>>]
    /\ printed = <<>>

\* Of the variables of SpecFlagstat, those collect_stats never writes.
fsFixed == <<hdrVars, tmVars, opVars, data, columns, parsing_template, original_template,
             amount, file_meta, built_with, prev_stats, queue, fed, collected>>

\* Lines 208-211: the exit test and the size of the batch.
LoopHead ==
    /\ fpc = "loop"
    /\ IF current_record = ToNat(amount)
       THEN /\ fpc' = "print"
            /\ UNCHANGED available_records
       ELSE /\ available_records' = Min(BUF_SIZE, ToNat(amount) - current_record)
            /\ fpc' = "RefID"
    /\ UNCHANGED <<fsFixed, stats, rec, fetched, last_call, current_record, asked,
                   printed>>

\* One of lines 213-220, 222-226, 228-232, 234-238: get_column(field), then
\* fill_record_field(current_record + offset, &mut buf) for every offset of
\* the batch.  The record buffer ends holding the batch's last record's value.
Pass(field, next) ==
    /\ fpc = field
    /\ IF ~columns[field]
       THEN /\ fpc' = "panicked"
            /\ last_call' = [op |-> "get_column", kind |-> "Panic",
                             active |-> field \in ActiveFields(parsing_template)]
            /\ UNCHANGED <<rec, fetched, asked>>
       ELSE /\ fpc' = next
            /\ last_call' = [op |-> "get_column", kind |-> "Ok",
                             active |-> field \in ActiveFields(parsing_template)]
            /\ rec' = fill_record_field(field, current_record + available_records - 1, rec)
            /\ fetched' = fetched \cup BlocksTouched(field)
            /\ asked' = [asked EXCEPT ![field] =
                            Append(@, <<current_record, current_record + available_records>>)]
    /\ UNCHANGED <<fsFixed, stats, current_record, available_records, printed>>

PassRefID == Pass("RefID", "NextRefID")
PassNextRefID == Pass("NextRefID", "Flags")
PassFlags == Pass("Flags", "Mapq")
PassMapq == Pass("Mapq", "advance")

\* Lines 244-248: the loop over the batch whose body (the call of collect)
\* is commented out, and current_record += available_records.
Advance ==
    /\ fpc = "advance"
    /\ current_record' = current_record + available_records
    /\ fpc' = "loop"
    /\ UNCHANGED <<fsFixed, stats, rec, fetched, last_call, available_records, asked,
                   printed>>

\* Line 269: println!("{stats}")
PrintStats ==
    /\ fpc = "print"
    /\ printed' = Display(stats)
    /\ fpc' = "done"
    /\ UNCHANGED <<fsFixed, stats, rec, fetched, last_call, current_record,
                   available_records, asked>>

FsNext ==
    \/ LoopHead
    \/ PassRefID
    \/ PassNextRefID
    \/ PassFlags
    \/ PassMapq
    \/ Advance
    \/ PrintStats

SpecFlagstat == FsInit /\ [][FsNext]_vars

\* The counters after the per-record rules are applied to records from .. to - 1.
RECURSIVE CollectRange(_, _, _)
CollectRange(from, to, st) ==
    IF from >= to THEN st
    ELSE CollectRange(from + 1, to,
            collect(Bundle(DataAt(from, "RefID"), DataAt(from, "NextRefID"),
                           DataAt(from, "Flags"), DataAt(from, "Mapq")), st).value)

\* C1 as stated: when collect_stats returns, n_reads[0] + n_reads[1] = N and
\* the sixteen counters (and the lines printed) are those of the per-record
\* rules applied once to each of the records 0 .. N-1.
C1_FlagstatCounts ==
    fpc = "done" =>
        /\ stats["n_reads"][1] + stats["n_reads"][2] = ToNat(amount)
        /\ stats = CollectRange(0, ToNat(amount), StatsDefault)
        /\ printed = Display(stats)

\* collect_stats as a sequential program that runs until it returns or panics.
SpecFlagstatLive == FsInit /\ [][FsNext]_vars /\ WF_vars(FsNext)

FlagstatFields == { "RefID", "NextRefID", "Flags", "Mapq" }

\* The reader collect_stats is meant for: one with the four columns.
FourColumns == \A f \in FlagstatFields : columns[f]

\* The batches <<from, to>> of a log, each asking for from .. to - 1 in
\* increasing order, cover 0 .. upto - 1 one after the other without gap or
\* overlap, each with between 1 and BUF_SIZE record numbers.
Tiles(log, upto) ==
    /\ \A i \in 1 .. Len(log) :
          /\ log[i][1] < log[i][2]
          /\ log[i][2] - log[i][1] <= BUF_SIZE
          /\ log[i][1] = IF i = 1 THEN 0 ELSE log[i - 1][2]
    /\ upto = IF log = <<>> THEN 0 ELSE log[Len(log)][2]

BatchLoopSafe ==
    LET N == ToNat(amount)
    IN  /\ fpc # "panicked"
        /\ current_record <= N
        /\ fpc \in FlagstatFields \cup { "advance" } =>
              /\ 1 <= available_records
              /\ available_records <= BUF_SIZE
              /\ current_record + available_records <= N
        /\ \A f \in FlagstatFields :
              \/ Tiles(asked[f], current_record)
              \/ /\ fpc \in FlagstatFields \cup { "advance" }
                 /\ Tiles(asked[f], current_record + available_records)
        /\ fpc \in { "print", "done" } =>
              /\ current_record = N
              /\ \A f \in FlagstatFields : Tiles(asked[f], N)
        /\ N = 0 =>
              /\ fpc \in { "loop", "print", "done" }
              /\ \A f \in FlagstatFields : asked[f] = <<>>

\* C13: on a reader with the four columns the batch loop of collect_stats
\* terminates for every record count N >= 0, at once when N = 0: each batch
\* holds between 1 and BUF_SIZE records, current_record only grows and ends
\* equal to N, and when the loop exits each of the columns RefID, NextRefID,
\* Flags and Mapq has been asked for every record number of 0 .. N - 1 once,
\* in increasing order, and for no number >= N.
C13_BatchLoop ==
    /\ [](FourColumns => BatchLoopSafe)
    /\ [][current_record' # current_record => current_record' > current_record]_vars
    /\ (FourColumns ~> fpc = "done")

C13_Witness ==
    /\ FourColumns
    /\ fpc = "done"
    /\ ToNat(amount) = MaxBatches * BUF_SIZE + 1
    /\ \A f \in FlagstatFields :
          /\ Len(asked[f]) = MaxBatches + 1
          /\ asked[f][MaxBatches + 1] = <<MaxBatches * BUF_SIZE, MaxBatches * BUF_SIZE + 1>>

\* ------------------------------------------------------------------------
\* reader.rs: verify_and_parse_meta and Reader::new
\* ------------------------------------------------------------------------
\* A metadata document that holds the field RefID with one block of two
\* records:
\* {"field_to_meta":{"RefID":{"item_size":4,"blocks_sizes":[9],"codec":"Lz4",
\*  "blocks":[{"seekpos":28,"numitems":2}]}}}
MetaDoc ==
    << 123, 34, 102, 105, 101, 108, 100, 95, 116, 111, 95, 109, 101, 116, 97, 34,
       58, 123, 34, 82, 101, 102, 73, 68, 34, 58, 123, 34, 105, 116, 101, 109,
       95, 115, 105, 122, 101, 34, 58, 52, 44, 34, 98, 108, 111, 99, 107, 115,
       95, 115, 105, 122, 101, 115, 34, 58, 91, 57, 93, 44, 34, 99, 111, 100,
       101, 99, 34, 58, 34, 76, 122, 52, 34, 44, 34, 98, 108, 111, 99, 107,
       115, 34, 58, 91, 123, 34, 115, 101, 101, 107, 112, 111, 115, 34, 58, 50,
       56, 44, 34, 110, 117, 109, 105, 116, 101, 109, 115, 34, 58, 50, 125, 93,
       125, 125, 125 >>

\* MetaDoc with 3 for numitems (the digit stands before the five closing
\* brackets): another well-formed document.
MetaDocThree ==
    [k \in 1 .. Len(MetaDoc) |-> IF k = Len(MetaDoc) - 5 THEN 51 ELSE MetaDoc[k]]
\* MetaDoc opening with a bracket for the brace: no FileMeta.
MetaDocBroken == [k \in 1 .. Len(MetaDoc) |-> IF k = 1 THEN 91 ELSE MetaDoc[k]]
\* MetaDoc with the byte FF inside the first key: not UTF-8.
MetaDocNotUtf8 == [k \in 1 .. Len(MetaDoc) |-> IF k = 3 THEN 255 ELSE MetaDoc[k]]

\* String::from_utf8 on the sample documents (ASCII but for the byte FF).
IsUtf8(b) == \A k \in 1 .. Len(b) : b[k] < 128

\* serde_json::from_str::<FileMeta> on the sample documents and their
\* suffixes: the two well-formed documents parse, nothing else does.
from_str(b) ==
    IF b = MetaDoc THEN Ok([f \in {"RefID"} |-> <<NatU32(2)>>])
    ELSE IF b = MetaDocThree THEN Ok([f \in {"RefID"} |-> <<NatU32(3)>>])
    ELSE Err("expected value")

\* A mutant of verify_and_parse_meta: the document is deserialised before
\* its CRC32 is compared.
verify_and_parse_meta_parse_first(mmap) ==
    IF Len(mmap) < FILE_INFO_SIZE THEN Panic("range end index out of range for slice")
    ELSE LET file_info == FromBytes(SubSeq(mmap, 1, FILE_INFO_SIZE))
         IN  IF file_info.kind = "Panic" THEN file_info
             ELSE IF LessLimbs(NatUsize(Len(mmap)), file_info.value.seekpos)
             THEN Panic("range start index out of range for slice")
             ELSE LET b == SubSeq(mmap, ToNat(file_info.value.seekpos) + 1, Len(mmap))
                  IN  IF ~IsUtf8(b) THEN Panic("called Result::unwrap() on an Err value")
                      ELSE IF from_str(b).kind = "Err"
                      THEN Panic("File meta json string was damaged.")
                      ELSE IF calc_crc_for_meta_bytes(b) # file_info.value.crc32
                      THEN Err("Metadata JSON was damaged.")
                      ELSE from_str(b)

\* verify_and_parse_meta(mmap)
verify_and_parse_meta(mmap) ==
    IF Len(mmap) < FILE_INFO_SIZE THEN Panic("range end index out of range for slice")
    ELSE LET file_info == FromBytes(SubSeq(mmap, 1, FILE_INFO_SIZE))
         IN  IF file_info.kind = "Panic" THEN file_info
             ELSE IF LessLimbs(NatUsize(Len(mmap)), file_info.value.seekpos)
             THEN Panic("range start index out of range for slice")
             ELSE LET b == SubSeq(mmap, ToNat(file_info.value.seekpos) + 1, Len(mmap))
                  IN  IF calc_crc_for_meta_bytes(b) # file_info.value.crc32
                      THEN Err("Metadata JSON was damaged.")
                      ELSE IF ~IsUtf8(b) THEN Panic("called Result::unwrap() on an Err value")
                      ELSE IF from_str(b).kind = "Err"
                      THEN Panic("File meta json string was damaged.")
                      ELSE from_str(b)

\* Reader::new(inner, parsing_template)
ReaderNewOutcome(mmap, template, checks) ==
    LET m == verify_and_parse_meta(mmap)
    IN  IF m.kind # "Ok" THEN m ELSE new_with_meta(template, m.value, checks)

\* ------------------------------------------------------------------------
\* SpecOpen: Reader::new on files whose header and metadata document are
\* sound or damaged in the ways a file can be.
\* ------------------------------------------------------------------------
DocSamples == { MetaDoc, MetaDocThree, MetaDocBroken, MetaDocNotUtf8 }
CrcSamples == { calc_crc_for_meta_bytes(d) : d \in DocSamples } \cup { U32Zero }
\* The compressed blocks between the header and the document.
BlockBytes == << 9, 0, 0, 0, 1, 2, 3, 4, 5 >>

OpenFiles ==
    { Resize(Damage(IntoBytes(FileInfoNew(<<NatU32(1), NatU32(0)>>,
                                          NatUsize(FILE_INFO_SIZE + Len(BlockBytes) + skew),
                                          crc))
                        \o BlockBytes \o doc, damaged), IF whole THEN FILE_INFO_SIZE + Len(BlockBytes) + Len(doc) ELSE FILE_INFO_SIZE - 1) :
        doc \in DocSamples, crc \in CrcSamples, damaged \in {0, 1}, whole \in BOOLEAN,
        skew \in {0, 1, Len(MetaDoc), Len(MetaDoc) + 1} }

OpInit ==
    /\ HdrIdle
    /\ RdIdle
    /\ TmIdle
    /\ CsIdle
    /\ FsIdle
    /\ file \in OpenFiles
    /\ opened = NoOutcome

ReaderNew ==
    /\ hpc = "idle"
    /\ file # <<>>
    /\ opened = NoOutcome
    /\ \E t \in Templates :
          /\ opened' = ReaderNewOutcome(file, t, FALSE)
          /\ IF opened'.kind = "Ok"
             THEN /\ columns' = opened'.value.columns
                  /\ parsing_template' = opened'.value.parsing_template
                  /\ original_template' = opened'.value.original_template
                  /\ amount' = opened'.value.amount
                  /\ file_meta' = opened'.value.file_meta
                  /\ built_with' = t
             ELSE UNCHANGED <<columns, parsing_template, original_template, amount,
                              file_meta, built_with>>
    /\ UNCHANGED <<hdrVars, tmVars, csVars, fsVars, file, data, rec, fetched, last_call>>

OpNext == ReaderNew

SpecOpen == OpInit /\ [][OpNext]_vars

\* The bytes [meta_offset, end_of_file) of f, for a header that parses and an
\* offset within the file.
HeaderParses(f) == Len(f) >= FILE_INFO_SIZE /\ MagicOk(f)
MetaOffset(f) == LittleEndianAt(f, 16, 23)
MetaRange(f) == SubSeq(f, ToNat(MetaOffset(f)) + 1, Len(f))
CrcDiffers(f) ==
    /\ HeaderParses(f)
    /\ LeqLimbs(MetaOffset(f), NatUsize(Len(f)))
    /\ LittleEndianAt(f, 24, 27) # calc_crc_for_meta_bytes(MetaRange(f))

\* C2: Reader::new on a file whose header CRC32 differs from the CRC32 of the
\* bytes [meta_offset, end_of_file) yields the MetadataCorrupt error (the
\* io::Error "Metadata JSON was damaged.") and no reader, also when the
\* metadata document cannot be deserialised.
C2_CrcBeforeParse ==
    (opened # NoOutcome /\ CrcDiffers(file)) =>
        /\ opened = Err("Metadata JSON was damaged.")
        /\ columns = <<>>
        /\ built_with = {}

C2_Witness ==
    /\ opened = Err("Metadata JSON was damaged.")
    /\ CrcDiffers(file)
    /\ MetaRange(file) = MetaDocBroken
    /\ columns = <<>>

====
